---- MODULE Spec2Model ----
(***************************************************************************)
(* A model of src/app.py, the Streamlit shift calendar.                    *)
(*                                                                         *)
(* The store is the four Firestore collections.  One action is one script  *)
(* run of one browser session: Streamlit runs the script top to bottom for *)
(* every widget event, and st.rerun() ends the run and queues a plain run  *)
(* (Render).  A run is one atomic action; the runs of two sessions are     *)
(* threads of the process, and the race specification splits an add where  *)
(* it has read the events and not yet written.                             *)
(*                                                                         *)
(* Time is counted in weeks (timedelta(weeks=2) is 2).  The cache TTL of   *)
(* 60 seconds is far below one week: a Tick empties the cache, and Expire  *)
(* drops one entry without the week changing.                              *)
(*                                                                         *)
(* Names are sequences of characters, so that name.replace(" ", "") is     *)
(* computed.  Attributes are written in ASCII: "Other" is the key 'その他'. *)
(* createdAt is written by the code and never read; it is left out.        *)
(***************************************************************************)
EXTENDS Integers, Sequences, FiniteSets, TLC

VARIABLES
    events,        \* v2_events: doc id -> document
    day_status,    \* v2_day_status: date -> isHeld, documents that exist only
    month_locks,   \* v2_month_locks: month -> isLocked, documents that exist only
    board,         \* v2_bulletin_board: documents in order of their timestamp
    cache,         \* st.cache_data of get_firestore_data: month -> returned tuple
    now,           \* datetime.now(), in weeks
    session,       \* st.session_state of each browser session
    notice,        \* the warning or error the last script run showed ("" if none)
    sweeps,        \* per session, how often cleanup_old_board_messages has run
    deleted_count, \* deleted_count of the last cleanup_old_board_messages
    inflight       \* per session, the new_event of a script run that has read
                   \* the events and has not yet reached its add (<<>> if none)

vars == <<events, day_status, month_locks, board, cache, now, session, notice,
          sweeps, deleted_count, inflight>>

\* ---------------------------------------------------------------- constants

MAX_SHIFTS_PER_DAY == 5

MINUTES_PER_SHIFT == 50

USER_ATTRIBUTES == {"PTA", "VolunteerWorker", "VolunteerStudent", "Other"}

\* timedelta(weeks=2), in weeks
TWO_WEEKS == 2

\* st.secrets["admin"]["password"]
ADMIN_PASSWORD == "secret"

\* ------------------------------------------------------------------- bounds

\* Documents of v2_events the ledger specification lets the store hold.
MaxDocs == 2

\* Documents of v2_events the capacity specification lets the store hold: one
\* more than MAX_SHIFTS_PER_DAY, so that a sixth shift of a date would fit.
MaxDocsFull == 6

\* Documents of v2_events the self-service specification lets the store hold.
MaxDocsSelf == 3

\* Weeks the clock runs.
MaxNow == 3

\* Documents of v2_bulletin_board the store holds.
MaxBoard == 2

\* The browser sessions of the one process.
Sessions == {1, 2}

\* The months the sessions display.
Months == {1, 2}

\* A date string YYYY-MM-DD is <<month, day>>; its month_id is the month.
Dates == {<<1, 1>>, <<2, 1>>}

MonthOf(date_str) == date_str[1]

NoName == <<>>

\* ------------------------------------------------------------ pure helpers

\* StripSpaces that removes nothing.
MutStripNothing(name) == name

\* name.replace(" ", "").replace("　", "")
RECURSIVE StripSpaces(_)
StripSpaces(name) ==
    IF name = <<>> THEN <<>>
    ELSE IF Head(name) = " " THEN StripSpaces(Tail(name))
    ELSE <<Head(name)>> \o StripSpaces(Tail(name))

\* event.get('attribute', 'その他')
AttrOf(event) == IF "attribute" \in DOMAIN event THEN event.attribute ELSE "Other"

\* event.get('minutes', MINUTES_PER_SHIFT)
MinutesOf(event) == IF "minutes" \in DOMAIN event THEN event.minutes ELSE MINUTES_PER_SHIFT

Restrict(f, S) == [x \in S |-> f[x]]

Reverse(seq) == [i \in 1..Len(seq) |-> seq[Len(seq) + 1 - i]]

\* The query of get_firestore_data against the store, uncached.
Snapshot(month) ==
    [events |-> Restrict(events, {k \in DOMAIN events : events[k].month_id = month}),
     day_status |-> Restrict(day_status, {d \in DOMAIN day_status : MonthOf(d) = month}),
     is_month_locked |-> month \in DOMAIN month_locks /\ month_locks[month],
     board_messages |-> Reverse(board)]

\* get_firestore_data under @st.cache_data: the cached tuple while there is one.
get_firestore_data(month) ==
    IF month \in DOMAIN cache THEN cache[month] ELSE Snapshot(month)

\* The cache after a call of get_firestore_data(month).
Filled(month) ==
    IF month \in DOMAIN cache THEN cache
    ELSE [m \in DOMAIN cache \cup {month} |->
            IF m = month THEN Snapshot(month) ELSE cache[m]]

\* st.cache_data.clear()
ClearedCache == <<>>

\* ------------------------------------------------------- session helpers

current_date(s) == session[s].current_date

\* The script is past the agreement screen and past lines 494-496.
Ready(s) == session[s].agreed_to_terms /\ session[s].cleanup_done

\* show_main_app is shown (line 498): the session has a user name.
InMainApp(s) == Ready(s) /\ session[s].user_name # NoName

\* The run calls get_firestore_data: the sidebar of an admin (line 411) or
\* the main app (lines 174, 309, 347).
ReadsData(s) == session[s].admin_mode \/ session[s].user_name # NoName

\* The cache at the end of a run of s that wrote nothing.
CacheAfterRun(s) == IF ReadsData(s) THEN Filled(current_date(s)) ELSE cache

\* ------------------------------------------------------ calendar helpers

\* is_held with the default of a missing document read as True.
MutIsHeldDefaultTrue(view, date_str) ==
    date_str \notin DOMAIN view.day_status \/ view.day_status[date_str]

\* day_status.get(date_str, {}).get('isHeld', False)
is_held(view, date_str) ==
    date_str \in DOMAIN view.day_status /\ view.day_status[date_str]

\* [data for data in events.values() if data.get('date') == date_str], by doc id
day_events(view, date_str) ==
    {k \in DOMAIN view.events : view.events[k].date = date_str}

\* is_full with > for >=.
MutIsFullStrict(view, date_str) ==
    Cardinality(day_events(view, date_str)) > MAX_SHIFTS_PER_DAY

is_full(view, date_str) ==
    Cardinality(day_events(view, date_str)) >= MAX_SHIFTS_PER_DAY

\* event.get('name') == user_name and attr == user_attribute
is_own_shift(s, event) ==
    event.name = session[s].user_name /\ AttrOf(event) = session[s].user_attribute

\* [k for k, v in events.items() if v == event][0]
doc_id_of(view, k) ==
    CHOOSE j \in DOMAIN view.events :
        /\ view.events[j] = view.events[k]
        /\ \A i \in DOMAIN view.events : view.events[i] = view.events[k] => j <= i

\* is_already_in reading the attribute without its default: a document
\* without the key matches no attribute.
MutAlreadyInNoDefault(s, view, date_str) ==
    \E k \in day_events(view, date_str) :
        /\ view.events[k].name = session[s].user_name
        /\ "attribute" \in DOMAIN view.events[k]
        /\ view.events[k].attribute = session[s].user_attribute

\* any(e.get('name') == user_name and e.get('attribute', 'その他') == user_attribute ...)
is_already_in(s, view, date_str) ==
    \E k \in day_events(view, date_str) : is_own_shift(s, view.events[k])

\* The id Firestore gives a new document: one no document has.
NewDocId ==
    CHOOSE i \in 1..(Cardinality(DOMAIN events) + 1) :
        /\ i \notin DOMAIN events
        /\ \A j \in 1..(Cardinality(DOMAIN events) + 1) : j \notin DOMAIN events => i <= j

new_event(date_str, name, attribute) ==
    [date |-> date_str, month_id |-> MonthOf(date_str), name |-> name,
     attribute |-> attribute, minutes |-> MINUTES_PER_SHIFT, uid |-> NewDocId]

\* EventsAdd as a transaction that tests the capacity of the date again.
MutEventsAddIfRoom(doc) ==
    IF Cardinality({k \in DOMAIN events : events[k].date = doc.date}) >= MAX_SHIFTS_PER_DAY
    THEN events
    ELSE [k \in DOMAIN events \cup {NewDocId} |-> IF k = NewDocId THEN doc ELSE events[k]]

\* db.collection(EVENTS_COLLECTION).add(new_event)
EventsAdd(doc) ==
    [k \in DOMAIN events \cup {NewDocId} |-> IF k = NewDocId THEN doc ELSE events[k]]

\* db.collection(EVENTS_COLLECTION).document(doc_id).delete()
EventsDelete(doc_id) == Restrict(events, DOMAIN events \ {doc_id})

\* db.collection(EVENTS_COLLECTION).document(doc_id).update({'minutes': new_min})
EventsUpdateMinutes(doc_id, new_min) ==
    IF doc_id \in DOMAIN events
    THEN [events EXCEPT ![doc_id] =
            [f \in DOMAIN events[doc_id] \cup {"minutes"} |->
                IF f = "minutes" THEN new_min ELSE events[doc_id][f]]]
    ELSE events

\* DocSet that leaves the written document alone in the collection.
MutDocSetReplacesAll(coll, key, value) == [k \in {key} |-> value]

\* document(key).set(value) on a collection held as a function
DocSet(coll, key, value) ==
    [k \in DOMAIN coll \cup {key} |-> IF k = key THEN value ELSE coll[k]]

Init ==
    /\ events = <<>>
    /\ day_status = <<>>
    /\ month_locks = <<>>
    /\ board = <<>>
    /\ cache = <<>>
    /\ now = 0
    /\ session = [s \in Sessions |->
                    [agreed_to_terms |-> FALSE, user_name |-> NoName,
                     user_attribute |-> "", admin_mode |-> FALSE,
                     current_date |-> 1, cleanup_done |-> FALSE]]
    /\ notice = ""
    /\ sweeps = [s \in Sessions |-> 0]
    /\ deleted_count = 0
    /\ inflight = [s \in Sessions |-> <<>>]

\* show_agreement_screen: the button sets the flag and reruns.
Agree(s) ==
    /\ ~session[s].agreed_to_terms
    /\ session' = [session EXCEPT ![s].agreed_to_terms = TRUE]
    /\ notice' = ""
    /\ UNCHANGED <<events, day_status, month_locks, board, cache, now, sweeps,
                   deleted_count, inflight>>

\* KeptMessages with the comparison timestamp <= two_weeks_ago.
MutKeptMessagesInclusive(messages, two_weeks_ago) ==
    SelectSeq(messages, LAMBDA msg : ~(msg.timestamp <= two_weeks_ago))

\* The messages cleanup_old_board_messages leaves: timestamp < two_weeks_ago goes.
KeptMessages(messages, two_weeks_ago) ==
    SelectSeq(messages, LAMBDA msg : ~(msg.timestamp < two_weeks_ago))

\* CleanupDue without the one-shot flag.
MutCleanupAlwaysDue(s) == TRUE

\* 'cleanup_done' not in st.session_state
CleanupDue(s) == ~session[s].cleanup_done

\* The first run after the agreement (lines 492-499): the sidebar of a session
\* that is no admin yet, cleanup_old_board_messages, the flag, the name form.
\* The sweep writes the store and does not clear the cache.
FirstRun(s) ==
    /\ session[s].agreed_to_terms
    /\ CleanupDue(s)
    /\ board' = KeptMessages(board, now - TWO_WEEKS)
    /\ deleted_count' = Len(board) - Len(board')
    /\ sweeps' = [sweeps EXCEPT ![s] = @ + 1]
    /\ session' = [session EXCEPT ![s].cleanup_done = TRUE]
    /\ cache' = CacheAfterRun(s)
    /\ notice' = ""
    /\ UNCHANGED <<events, day_status, month_locks, now, inflight>>

\* A run without a widget event (the run st.rerun() queues, or a widget that
\* changes nothing): the script renders, reading through the cache.
Render(s) ==
    /\ Ready(s)
    /\ cache' = CacheAfterRun(s)
    /\ notice' = ""
    /\ UNCHANGED <<events, day_status, month_locks, board, now, session, sweeps,
                   deleted_count, inflight>>

\* SubmitName that takes the empty name.
MutSubmitNameAcceptsEmpty(s, name, attribute) ==
    /\ Ready(s)
    /\ session[s].user_name = NoName
    /\ session' = [session EXCEPT ![s].user_name = StripSpaces(name),
                                  ![s].user_attribute = attribute]
    /\ notice' = ""
    /\ cache' = CacheAfterRun(s)
    /\ UNCHANGED <<events, day_status, month_locks, board, now, sweeps, deleted_count,
                   inflight>>

\* show_welcome_and_name_input: the name form, shown while user_name is empty.
SubmitName(s, name, attribute) ==
    /\ Ready(s)
    /\ session[s].user_name = NoName
    /\ IF name # NoName
       THEN /\ session' = [session EXCEPT ![s].user_name = StripSpaces(name),
                                          ![s].user_attribute = attribute]
            /\ notice' = ""
       ELSE /\ notice' = "name_required"
            /\ UNCHANGED session
    /\ cache' = CacheAfterRun(s)
    /\ UNCHANGED <<events, day_status, month_locks, board, now, sweeps, deleted_count, inflight>>

\* Login that takes any password.
MutLoginAnyPassword(s, password) ==
    /\ Ready(s)
    /\ ~session[s].admin_mode
    /\ session' = [session EXCEPT ![s].admin_mode = TRUE]
    /\ notice' = ""
    /\ UNCHANGED <<events, day_status, month_locks, board, cache, now, sweeps,
                   deleted_count, inflight>>

\* show_admin_sidebar, lines 393-399: the login button.
Login(s, password) ==
    /\ Ready(s)
    /\ ~session[s].admin_mode
    /\ IF password = ADMIN_PASSWORD
       THEN /\ session' = [session EXCEPT ![s].admin_mode = TRUE]
            /\ notice' = ""
            /\ UNCHANGED cache
       ELSE /\ notice' = "wrong_password"
            /\ cache' = CacheAfterRun(s)
            /\ UNCHANGED session
    /\ UNCHANGED <<events, day_status, month_locks, board, now, sweeps, deleted_count, inflight>>

\* show_admin_sidebar, lines 401-404: the logout button.
Logout(s) ==
    /\ Ready(s)
    /\ session[s].admin_mode
    /\ session' = [session EXCEPT ![s].admin_mode = FALSE]
    /\ notice' = ""
    /\ UNCHANGED <<events, day_status, month_locks, board, cache, now, sweeps,
                   deleted_count, inflight>>

\* show_admin_sidebar, lines 408-421: the lock button of the displayed month.
ToggleLock(s) ==
    /\ Ready(s)
    /\ session[s].admin_mode
    /\ LET month_id == current_date(s)
           view == get_firestore_data(month_id)
       IN  month_locks' = DocSet(month_locks, month_id, ~view.is_month_locked)
    /\ cache' = ClearedCache
    /\ notice' = ""
    /\ UNCHANGED <<events, day_status, board, now, session, sweeps, deleted_count, inflight>>

\* show_calendar, lines 177-183: the previous and next month buttons.
ChangeMonth(s, delta) ==
    /\ InMainApp(s)
    /\ current_date(s) + delta \in Months
    /\ session' = [session EXCEPT ![s].current_date = @ + delta]
    /\ cache' = CacheAfterRun(s)
    /\ notice' = ""
    /\ UNCHANGED <<events, day_status, month_locks, board, now, sweeps, deleted_count, inflight>>

\* show_calendar, lines 215-219: the held checkbox of an admin.  The checkbox
\* is disabled while the month is locked, so its value differs from is_held
\* only after the admin has toggled an enabled checkbox.
ToggleHeld(s, date_str) ==
    /\ InMainApp(s)
    /\ MonthOf(date_str) = current_date(s)
    /\ session[s].admin_mode
    /\ LET view == get_firestore_data(current_date(s))
           new_is_held == ~is_held(view, date_str)
       IN  IF ~view.is_month_locked
           THEN /\ day_status' = DocSet(day_status, date_str, new_is_held)
                /\ cache' = ClearedCache
           ELSE /\ cache' = CacheAfterRun(s)
                /\ UNCHANGED day_status
    /\ notice' = ""
    /\ UNCHANGED <<events, month_locks, board, now, session, sweeps, deleted_count, inflight>>

\* AdminRow without the lock test.
MutAdminRowIgnoresLock(s, view) == session[s].admin_mode

\* The branch of lines 233-261 a shift row takes: the admin row with the
\* minutes input and the delete button, or the row of a general user.
AdminRow(s, view) == session[s].admin_mode /\ ~view.is_month_locked

\* DeleteShown with the button on every row of an unlocked month.
MutDeleteShownToAll(s, view, k) == ~view.is_month_locked

\* The delete button is on the row: always on an admin row (line 248), on a
\* general row for the session's own shift of an unlocked month (line 258).
DeleteShown(s, view, k) ==
    IF AdminRow(s, view) THEN TRUE
    ELSE is_own_shift(s, view.events[k]) /\ ~view.is_month_locked

\* SetMinutes of a number input without min_value.
MutSetMinutesNoMinimum(s, k, new_min) ==
    /\ InMainApp(s)
    /\ LET view == get_firestore_data(current_date(s))
       IN  /\ k \in DOMAIN view.events
           /\ IF AdminRow(s, view) /\ new_min # MinutesOf(view.events[k])
              THEN /\ events' = EventsUpdateMinutes(doc_id_of(view, k), new_min)
                   /\ cache' = ClearedCache
              ELSE /\ cache' = CacheAfterRun(s)
                   /\ UNCHANGED events
    /\ notice' = ""
    /\ UNCHANGED <<day_status, month_locks, board, now, session, sweeps, deleted_count,
                   inflight>>

\* show_calendar, lines 240-245: the minutes input of an admin row
\* (min_value=0: the widget gives no negative number).
SetMinutes(s, k, new_min) ==
    /\ InMainApp(s)
    /\ new_min >= 0
    /\ LET view == get_firestore_data(current_date(s))
       IN  /\ k \in DOMAIN view.events
           /\ IF AdminRow(s, view) /\ new_min # MinutesOf(view.events[k])
              THEN /\ events' = EventsUpdateMinutes(doc_id_of(view, k), new_min)
                   /\ cache' = ClearedCache
              ELSE /\ cache' = CacheAfterRun(s)
                   /\ UNCHANGED events
    /\ notice' = ""
    /\ UNCHANGED <<day_status, month_locks, board, now, session, sweeps, deleted_count, inflight>>

\* show_calendar, lines 248-250 and 258-261: the delete button of a shift row.
DeleteShift(s, k) ==
    /\ InMainApp(s)
    /\ LET view == get_firestore_data(current_date(s))
       IN  /\ k \in DOMAIN view.events
           /\ IF DeleteShown(s, view, k)
              THEN /\ events' = EventsDelete(doc_id_of(view, k))
                   /\ cache' = ClearedCache
              ELSE /\ cache' = CacheAfterRun(s)
                   /\ UNCHANGED events
    /\ notice' = ""
    /\ UNCHANGED <<day_status, month_locks, board, now, session, sweeps, deleted_count, inflight>>

\* AddShown without the test of is_full.
MutAddShownIgnoresFull(view, date_str) ==
    is_held(view, date_str) /\ ~view.is_month_locked

\* The add widgets of a date are shown (lines 263-264).
AddShown(view, date_str) ==
    is_held(view, date_str) /\ ~view.is_month_locked /\ ~is_full(view, date_str)

\* The date shows "full" instead of the add widgets (lines 298-299).
FullShown(view, date_str) ==
    is_held(view, date_str) /\ ~view.is_month_locked /\ is_full(view, date_str)

\* AdminAdd with the duplicate test of the join button.
MutAdminAddChecksDuplicate(s, date_str, admin_add_name, admin_add_attr, max_docs) ==
    /\ InMainApp(s)
    /\ MonthOf(date_str) = current_date(s)
    /\ session[s].admin_mode
    /\ Cardinality(DOMAIN events) < max_docs
    /\ LET view == get_firestore_data(current_date(s))
           duplicate == \E k \in day_events(view, date_str) :
                            /\ view.events[k].name = admin_add_name
                            /\ AttrOf(view.events[k]) = admin_add_attr
       IN  IF AddShown(view, date_str) /\ admin_add_name # NoName /\ ~duplicate
           THEN /\ events' = EventsAdd(new_event(date_str, admin_add_name, admin_add_attr))
                /\ cache' = ClearedCache
                /\ notice' = ""
           ELSE /\ cache' = CacheAfterRun(s)
                /\ notice' = IF FullShown(view, date_str) THEN "full" ELSE ""
                /\ UNCHANGED events
    /\ UNCHANGED <<day_status, month_locks, board, now, session, sweeps, deleted_count,
                   inflight>>

\* show_calendar, lines 265-280: the add form of an admin.  max_docs bounds
\* the store.
AdminAdd(s, date_str, admin_add_name, admin_add_attr, max_docs) ==
    /\ InMainApp(s)
    /\ MonthOf(date_str) = current_date(s)
    /\ session[s].admin_mode
    /\ Cardinality(DOMAIN events) < max_docs
    /\ LET view == get_firestore_data(current_date(s))
       IN  IF AddShown(view, date_str) /\ admin_add_name # NoName
           THEN /\ events' = EventsAdd(new_event(date_str, admin_add_name, admin_add_attr))
                /\ cache' = ClearedCache
                /\ notice' = ""
           ELSE /\ cache' = CacheAfterRun(s)
                /\ notice' = IF FullShown(view, date_str) THEN "full" ELSE ""
                /\ UNCHANGED events
    /\ UNCHANGED <<day_status, month_locks, board, now, session, sweeps, deleted_count, inflight>>

\* show_calendar, lines 281-297: the join button of a general user.
SelfAdd(s, date_str, max_docs) ==
    /\ InMainApp(s)
    /\ MonthOf(date_str) = current_date(s)
    /\ ~session[s].admin_mode
    /\ Cardinality(DOMAIN events) < max_docs
    /\ LET view == get_firestore_data(current_date(s))
       IN  IF AddShown(view, date_str) /\ ~is_already_in(s, view, date_str)
           THEN /\ events' = EventsAdd(new_event(date_str, session[s].user_name,
                                                 session[s].user_attribute))
                /\ cache' = ClearedCache
                /\ notice' = ""
           ELSE /\ cache' = CacheAfterRun(s)
                /\ notice' = IF AddShown(view, date_str) THEN "already_in"
                             ELSE IF FullShown(view, date_str) THEN "full" ELSE ""
                /\ UNCHANGED events
    /\ UNCHANGED <<day_status, month_locks, board, now, session, sweeps, deleted_count, inflight>>

\* The script runs that have read the events and not yet written.
Pending == {s \in Sessions : inflight[s] # <<>>}

\* show_calendar, lines 174-278 of an admin's add: the run has fetched the
\* events (line 174), found the date held, unlocked and not full, and holds
\* the submitted name; it has not reached line 279.
BeginAdminAdd(s, date_str, admin_add_name, admin_add_attr, max_docs) ==
    /\ InMainApp(s)
    /\ MonthOf(date_str) = current_date(s)
    /\ session[s].admin_mode
    /\ inflight[s] = <<>>
    /\ Cardinality(DOMAIN events) + Cardinality(Pending) < max_docs
    /\ LET view == get_firestore_data(current_date(s))
       IN  AddShown(view, date_str) /\ admin_add_name # NoName
    /\ inflight' = [inflight EXCEPT ![s] =
                        <<[date |-> date_str, name |-> admin_add_name,
                           attribute |-> admin_add_attr]>>]
    /\ cache' = Filled(current_date(s))
    /\ UNCHANGED <<events, day_status, month_locks, board, now, session, notice,
                   sweeps, deleted_count>>

\* show_calendar, lines 174-293 of a join: the run has fetched the events,
\* found the date held, unlocked, not full and without the session's shift;
\* it has not reached line 294.
BeginSelfAdd(s, date_str, max_docs) ==
    /\ InMainApp(s)
    /\ MonthOf(date_str) = current_date(s)
    /\ ~session[s].admin_mode
    /\ inflight[s] = <<>>
    /\ Cardinality(DOMAIN events) + Cardinality(Pending) < max_docs
    /\ LET view == get_firestore_data(current_date(s))
       IN  AddShown(view, date_str) /\ ~is_already_in(s, view, date_str)
    /\ inflight' = [inflight EXCEPT ![s] =
                        <<[date |-> date_str, name |-> session[s].user_name,
                           attribute |-> session[s].user_attribute]>>]
    /\ cache' = Filled(current_date(s))
    /\ UNCHANGED <<events, day_status, month_locks, board, now, session, notice,
                   sweeps, deleted_count>>

\* Lines 279-280 and 294-295: the add, the cache cleared, the rerun.  The
\* uid is drawn here: a uuid4 does not depend on what the run has read.
CommitAdd(s) ==
    /\ inflight[s] # <<>>
    /\ LET pending == inflight[s][1]
       IN  events' = EventsAdd(new_event(pending.date, pending.name, pending.attribute))
    /\ cache' = ClearedCache
    /\ inflight' = [inflight EXCEPT ![s] = <<>>]
    /\ notice' = ""
    /\ UNCHANGED <<day_status, month_locks, board, now, session, sweeps, deleted_count>>

\* show_board_and_info, lines 356-368: the board form.  max_board bounds the
\* collection.  is_month_locked is fetched (line 347) and not read.
PostBoard(s, name_input, message_input, max_board) ==
    /\ InMainApp(s)
    /\ Len(board) < max_board
    /\ IF name_input # NoName /\ message_input # ""
       THEN /\ board' = Append(board, [month_id |-> current_date(s), name |-> name_input,
                                       message |-> message_input, timestamp |-> now])
            /\ cache' = ClearedCache
            /\ notice' = ""
       ELSE /\ cache' = CacheAfterRun(s)
            /\ notice' = "board_incomplete"
            /\ UNCHANGED board
    /\ UNCHANGED <<events, day_status, month_locks, now, session, sweeps, deleted_count, inflight>>

\* A week passes; every cache entry is older than its 60 seconds (line 69).
\* The run st.rerun() queues after the agreement starts at once, so no week
\* passes before it.
Tick ==
    /\ now < MaxNow
    /\ \A s \in Sessions : session[s].agreed_to_terms => session[s].cleanup_done
    /\ now' = now + 1
    /\ cache' = <<>>
    /\ UNCHANGED <<events, day_status, month_locks, board, session, notice, sweeps,
                   deleted_count, inflight>>

\* ttl=60 (line 69): an entry of the cache expires.
Expire(month) ==
    /\ month \in DOMAIN cache
    /\ cache' = Restrict(cache, DOMAIN cache \ {month})
    /\ UNCHANGED <<events, day_status, month_locks, board, now, session, notice,
                   sweeps, deleted_count, inflight>>

\* ---------------------------------------------------------------- reports

\* SumMinutes with a missing minutes counted as 0.
RECURSIVE MutSumMinutesZeroDefault(_, _)
MutSumMinutesZeroDefault(evs, ids) ==
    IF ids = {} THEN 0
    ELSE LET k == CHOOSE i \in ids : TRUE
         IN  (IF "minutes" \in DOMAIN evs[k] THEN evs[k].minutes ELSE 0)
             + MutSumMinutesZeroDefault(evs, ids \ {k})

\* show_activity_record, lines 315-329: user_data, (name, attr) -> minutes.
RECURSIVE SumMinutes(_, _)
SumMinutes(evs, ids) ==
    IF ids = {} THEN 0
    ELSE LET k == CHOOSE i \in ids : TRUE
         IN  MinutesOf(evs[k]) + SumMinutes(evs, ids \ {k})

user_data(evs) ==
    LET named == {k \in DOMAIN evs : evs[k].name # NoName}
        keys == {<<evs[k].name, AttrOf(evs[k])>> : k \in named}
    IN  [key \in keys |->
            SumMinutes(evs, {k \in named : <<evs[k].name, AttrOf(evs[k])>> = key})]

\* The place of a key in list(user_data.values()): a dict keeps the order of
\* insertion, and the events come in the order of their document ids.
FirstSeen(evs, key) ==
    CHOOSE k \in DOMAIN evs :
        /\ <<evs[k].name, AttrOf(evs[k])>> = key
        /\ \A j \in DOMAIN evs : <<evs[j].name, AttrOf(evs[j])>> = key => k <= j

\* ord() of the characters of the names.
CodePoint(c) == CASE c = " " -> 32 [] c = "a" -> 97 [] c = "b" -> 98

\* Python's str <: the first differing character decides, a prefix is less.
RECURSIVE NameLess(_, _)
NameLess(x, y) ==
    IF y = <<>> THEN FALSE
    ELSE IF x = <<>> THEN TRUE
    ELSE IF Head(x) # Head(y) THEN CodePoint(Head(x)) < CodePoint(Head(y))
    ELSE NameLess(Tail(x), Tail(y))

\* RowBefore with the totals ascending.
MutRowBeforeAscending(evs, data, x, y) ==
    \/ data[x] < data[y]
    \/ data[x] = data[y] /\ NameLess(x[1], y[1])
    \/ data[x] = data[y] /\ x[1] = y[1] /\ FirstSeen(evs, x) < FirstSeen(evs, y)

\* sort_values(by=[total, name], ascending=[False, True]), line 338: the row
\* of x comes before the row of y.  The sort is stable: rows equal in both
\* columns keep the order of the list.
RowBefore(evs, data, x, y) ==
    \/ data[x] > data[y]
    \/ data[x] = data[y] /\ NameLess(x[1], y[1])
    \/ data[x] = data[y] /\ x[1] = y[1] /\ FirstSeen(evs, x) < FirstSeen(evs, y)

RECURSIVE SortRows(_, _, _)
SortRows(evs, data, keys) ==
    IF keys = {} THEN <<>>
    ELSE LET first == CHOOSE x \in keys :
                         \A y \in keys \ {x} : RowBefore(evs, data, x, y)
         IN  <<[name |-> first[1], attribute |-> first[2], minutes |-> data[first]]>>
             \o SortRows(evs, data, keys \ {first})

\* show_activity_record without the early return of an unlocked month.
MutActivityIgnoresLock(view) ==
    LET data == user_data(view.events)
    IN  SortRows(view.events, data, DOMAIN data)

\* show_activity_record: the rows of the table shown for the displayed month,
\* top to bottom; none while the fetched lock flag is false (lines 311-313).
show_activity_record(view) ==
    IF ~view.is_month_locked THEN <<>>
    ELSE LET data == user_data(view.events)
         IN  SortRows(view.events, data, DOMAIN data)

RECURSIVE SumOver(_, _)
SumOver(f, S) ==
    IF S = {} THEN 0
    ELSE LET x == CHOOSE y \in S : TRUE IN f[x] + SumOver(f, S \ {x})

\* DfRow with the missing minutes filled with 0.
MutDfRowZeroFill(doc) ==
    [name |-> doc.name, attribute |-> AttrOf(doc),
     minutes |-> IF "minutes" \in DOMAIN doc THEN doc.minutes ELSE 0,
     day |-> doc.date[2]]

\* generate_admin_csv, lines 441-462: a row of df, the missing minutes and
\* attribute filled, the day taken from the date.
DfRow(doc) ==
    [name |-> doc.name, attribute |-> AttrOf(doc), minutes |-> MinutesOf(doc),
     day |-> doc.date[2]]

\* The sidebar's warning of a month without events stands for the pivot.
NoCsv == <<>>

\* generate_admin_csv, lines 434-471: the pivot of the month's events, read
\* from the store and not through the cache: per (name, attribute) the cells
\* of the days that have events, sums with fill_value 0, and the total.
generate_admin_csv(month) ==
    LET ids == {k \in DOMAIN events : events[k].month_id = month}
        df == [k \in ids |-> DfRow(events[k])]
        index == {<<df[k].name, df[k].attribute>> : k \in ids}
        columns == {df[k].day : k \in ids}
        cell(key, day) ==
            SumOver([k \in ids |-> df[k].minutes],
                    {k \in ids : <<df[k].name, df[k].attribute>> = key /\ df[k].day = day})
        pivot == [key \in index |-> [day \in columns |-> cell(key, day)]]
    IN  IF ids = {} THEN NoCsv
        ELSE [key \in index |->
                [cells |-> pivot[key], total |-> SumOver(pivot[key], columns)]]

\* show_admin_sidebar, lines 425-428: the export button of an admin.
ExportCsv(s) ==
    /\ Ready(s)
    /\ session[s].admin_mode
    /\ notice' = IF generate_admin_csv(current_date(s)) = NoCsv
                 THEN "no_events" ELSE "csv_ready"
    /\ cache' = CacheAfterRun(s)
    /\ UNCHANGED <<events, day_status, month_locks, board, now, session, sweeps,
                   deleted_count, inflight>>

\* ------------------------------------------------------------- the ledger
\* The calendar of two months, the lock and one session that logs in and out;
\* the minutes input is that of the first document.  The board stays empty
\* and the clock stands still.

\* The sessions that go on to the sidebar.
MainSessions == {1}

DocIds == 1..MaxDocs

NameInputs == {<<>>, <<"a">>}

AttrInputs == {"Other"}

AdminNameInputs == {<<>>, <<"a">>}

AdminAttrInputs == {"PTA", "Other"}

PasswordInputs == {ADMIN_PASSWORD, "guess"}

MinuteInputs == {0, 50}

Next ==
    \/ \E s \in MainSessions :
        \/ Agree(s)
        \/ FirstRun(s)
        \/ Render(s)
        \/ \E name \in NameInputs, attribute \in AttrInputs : SubmitName(s, name, attribute)
        \/ \E password \in PasswordInputs : Login(s, password)
        \/ Logout(s)
        \/ ToggleLock(s)
        \/ \E delta \in {-1, 1} : ChangeMonth(s, delta)
        \/ \E d \in Dates : ToggleHeld(s, d)
        \/ \E new_min \in MinuteInputs : SetMinutes(s, 1, new_min)
        \/ \E k \in DocIds : DeleteShift(s, k)
        \/ \E d \in Dates, name \in AdminNameInputs, attribute \in AdminAttrInputs :
              AdminAdd(s, d, name, attribute, MaxDocs)
        \/ \E d \in Dates : SelfAdd(s, d, MaxDocs)
    \/ \E month \in Months : Expire(month)

Spec == Init /\ [][Next]_vars

\* The lock flag and the held flag as the store has them.
StoreLocked(month) == month \in DOMAIN month_locks /\ month_locks[month]

StoreHeld(date_str) == date_str \in DOMAIN day_status /\ day_status[date_str]

C6_AddOnlyOnHeldDate ==
    [][\A k \in DOMAIN events' \ DOMAIN events : StoreHeld(events'[k].date)]_vars

\* A shift exists on a held date while another date has no DayStatus document.
C6_Witness ==
    /\ \E k \in DOMAIN events : StoreHeld(events[k].date)
    /\ \E d \in Dates :
          /\ d \notin DOMAIN day_status
          /\ \A k \in DOMAIN events : events[k].date # d

\* C7: for a month whose lock flag is false or absent the attendance
\* aggregation shows no rows, however many shifts the month has; a month
\* that shows rows is locked.
C7_NoAttendanceWhileUnlocked ==
    \A month \in Months :
        /\ ~StoreLocked(month) => show_activity_record(get_firestore_data(month)) = <<>>
        /\ show_activity_record(get_firestore_data(month)) # <<>> => StoreLocked(month)

\* An unlocked month with shifts, rendered to a session in the main app, and
\* a locked month that shows rows.
C7_Witness ==
    /\ \E s \in Sessions :
          /\ InMainApp(s)
          /\ ~StoreLocked(current_date(s))
          /\ current_date(s) \in DOMAIN cache
          /\ DOMAIN Snapshot(current_date(s)).events # {}
    /\ \E month \in Months : show_activity_record(get_firestore_data(month)) # <<>>

\* -------------------------------------------------------------- the board
\* Two sessions: the board form, the lock, the retention sweep of each
\* session's first run, the clock and the cache's expiry; the calendar stays
\* empty.  The second session is a visitor who agrees, has its first run and
\* re-renders; the first one goes on to the main app and the sidebar.

BoardNameInputs == {<<>>, <<"a">>}

MessageInputs == {"", "hi"}

NextBoard ==
    \/ \E s \in Sessions :
        \/ Agree(s)
        \/ FirstRun(s)
        \/ Render(s)
    \/ \E s \in MainSessions :
        \/ SubmitName(s, <<"a">>, "Other")
        \/ Login(s, ADMIN_PASSWORD)
        \/ Logout(s)
        \/ ToggleLock(s)
        \/ \E delta \in {-1, 1} : ChangeMonth(s, delta)
        \/ \E name \in BoardNameInputs, message \in MessageInputs :
              PostBoard(s, name, message, MaxBoard)
    \/ Tick
    \/ \E month \in Months : Expire(month)

SpecBoard == Init /\ [][NextBoard]_vars

\* The messages of the board that carry a month_id.
MessagesOf(messages, month) == SelectSeq(messages, LAMBDA msg : msg.month_id = month)

\* C2: while a month is locked, no request appends a BoardMessage carrying
\* that month_id.
C2_NoPostWhileLocked ==
    [][\A month \in Months :
          StoreLocked(month) =>
              Len(MessagesOf(board', month)) <= Len(MessagesOf(board, month))]_vars

\* C8 as stated: cleanup_old_board_messages runs at most once in the process,
\* whatever the number of sessions.
C8_OncePerProcess == SumOver(sweeps, Sessions) <= 1

\* C8 as amended: cleanup_old_board_messages runs at most once in each
\* browser session, whatever the number of its requests.
C8_OncePerSession == \A s \in Sessions : sweeps[s] <= 1

\* Both sessions have had their sweep, and the first has gone on to post.
C8_Witness ==
    /\ \A s \in Sessions : sweeps[s] = 1 /\ session[s].cleanup_done
    /\ \E s \in MainSessions : InMainApp(s)
    /\ board # <<>>

C10_ReadReflectsStore ==
    \A month \in Months : get_firestore_data(month) = Snapshot(month)

\* ----------------------------------------------------------- the capacity
\* One session and one date, with room in the store for a sixth shift: the
\* admin form, the join button, the deletes, the minutes of the first
\* document, the held checkbox and the lock.

FullDate == <<1, 1>>

FullDocIds == 1..MaxDocsFull

NextFull ==
    \/ \E s \in MainSessions :
        \/ Agree(s)
        \/ FirstRun(s)
        \/ Render(s)
        \/ SubmitName(s, <<"a">>, "Other")
        \/ Login(s, ADMIN_PASSWORD)
        \/ Logout(s)
        \/ ToggleLock(s)
        \/ ToggleHeld(s, FullDate)
        \/ \E new_min \in MinuteInputs : SetMinutes(s, 1, new_min)
        \/ \E k \in FullDocIds : DeleteShift(s, k)
        \/ \E name \in AdminNameInputs, attribute \in AdminAttrInputs :
              AdminAdd(s, FullDate, name, attribute, MaxDocsFull)
        \/ SelfAdd(s, FullDate, MaxDocsFull)
    \/ \E month \in Months : Expire(month)

SpecFull == Init /\ [][NextFull]_vars

\* The shifts the store holds for a date.
ShiftsOn(date_str) == {k \in DOMAIN events : events[k].date = date_str}

\* C3: every date has at most MAX_SHIFTS_PER_DAY shifts.
C3_AtMostFivePerDay ==
    \A d \in Dates : Cardinality(ShiftsOn(d)) <= MAX_SHIFTS_PER_DAY

\* A date holds five shifts, one of them the session's own and one with its
\* minutes changed.
C3_Witness ==
    /\ Cardinality(ShiftsOn(FullDate)) = MAX_SHIFTS_PER_DAY
    /\ \E k \in ShiftsOn(FullDate) : events[k].attribute = "Other"
    /\ \E k \in ShiftsOn(FullDate) : events[k].minutes # MINUTES_PER_SHIFT

\* An add request for a date, by the admin form or by the join button.
AddRequest(s, date_str) ==
    \/ SelfAdd(s, date_str, MaxDocsFull)
    \/ \E name \in AdminNameInputs, attribute \in AdminAttrInputs :
          AdminAdd(s, date_str, name, attribute, MaxDocsFull)

\* C4: an add request for a date whose fetched events number
\* MAX_SHIFTS_PER_DAY or more writes no ShiftEvent: the events are unchanged.
C4_FullDateRejectsAdd ==
    [][\A s \in Sessions, d \in Dates :
          /\ Cardinality(day_events(get_firestore_data(MonthOf(d)), d)) >= MAX_SHIFTS_PER_DAY
          /\ AddRequest(s, d)
          => events' = events]_vars

\* A general user's join request has met a held date of an unlocked month
\* with five shifts.
C4_Witness ==
    /\ notice = "full"
    /\ Cardinality(ShiftsOn(FullDate)) = MAX_SHIFTS_PER_DAY
    /\ \E s \in Sessions : InMainApp(s) /\ ~session[s].admin_mode

\* C15: an admin's add with a non-empty name on a date that the store has
\* held, unlocked and with fewer than MAX_SHIFTS_PER_DAY shifts writes one
\* new ShiftEvent with the submitted name and attribute, whether or not the
\* date already has a shift of that name and attribute; with the date not
\* held, the month locked, the date full or the name empty it writes none.
C15_AdminAddSkipsDuplicateCheck ==
    [][\A s \in Sessions, name \in AdminNameInputs, attribute \in AdminAttrInputs :
          AdminAdd(s, FullDate, name, attribute, MaxDocsFull) =>
              IF /\ name # NoName
                 /\ StoreHeld(FullDate)
                 /\ ~StoreLocked(MonthOf(FullDate))
                 /\ Cardinality(ShiftsOn(FullDate)) < MAX_SHIFTS_PER_DAY
              THEN /\ Cardinality(DOMAIN events' \ DOMAIN events) = 1
                   /\ \A k \in DOMAIN events : k \in DOMAIN events' /\ events'[k] = events[k]
                   /\ \A k \in DOMAIN events' \ DOMAIN events :
                         /\ events'[k].date = FullDate
                         /\ events'[k].name = name
                         /\ events'[k].attribute = attribute
                         /\ events'[k].minutes = MINUTES_PER_SHIFT
              ELSE events' = events]_vars

\* The admin has added a name and attribute the date already had, and the
\* date has filled up to MAX_SHIFTS_PER_DAY shifts.
C15_Witness ==
    /\ \E j, k \in ShiftsOn(FullDate) :
          /\ j # k
          /\ events[j].name = events[k].name
          /\ events[j].attribute = events[k].attribute
    /\ \E s \in MainSessions : session[s].admin_mode
    /\ Cardinality(ShiftsOn(FullDate)) = MAX_SHIFTS_PER_DAY

\* ------------------------------------------------------- the self-service
\* Two sessions that join and leave the shifts of one date; the first may log
\* in to set the held flag, the lock and the minutes, and makes no admin add.  The store
\* may start with a document written before attributes and minutes existed
\* (lines 226-228, 448): it has neither key.

LegacyDoc == [date |-> <<1, 1>>, month_id |-> 1, name |-> <<"a">>]

InitSelf ==
    /\ events \in {<<>>, <<LegacyDoc>>}
    /\ day_status = <<>>
    /\ month_locks = <<>>
    /\ board = <<>>
    /\ cache = <<>>
    /\ now = 0
    /\ session = [s \in Sessions |->
                    [agreed_to_terms |-> FALSE, user_name |-> NoName,
                     user_attribute |-> "", admin_mode |-> FALSE,
                     current_date |-> 1, cleanup_done |-> FALSE]]
    /\ notice = ""
    /\ sweeps = [s \in Sessions |-> 0]
    /\ deleted_count = 0
    /\ inflight = [s \in Sessions |-> <<>>]

SelfDocIds == 1..MaxDocsSelf

SelfNameInputs == {<<"a">>, <<"b", " ">>}

SelfAttrInputs == {"PTA", "Other"}

\* What is typed into the minutes input; the widget refuses the negative.
SelfMinuteInputs == {-5, 0}

NextSelf ==
    \/ \E s \in Sessions :
        \/ Agree(s)
        \/ FirstRun(s)
        \/ Render(s)
        \/ \E name \in SelfNameInputs, attribute \in SelfAttrInputs :
              SubmitName(s, name, attribute)
        \/ \E k \in SelfDocIds : DeleteShift(s, k)
        \/ SelfAdd(s, LegacyDoc.date, MaxDocsSelf)
    \/ \E s \in MainSessions :
        \/ Login(s, ADMIN_PASSWORD)
        \/ Logout(s)
        \/ ToggleLock(s)
        \/ ToggleHeld(s, LegacyDoc.date)
        \/ \E k \in SelfDocIds, new_min \in SelfMinuteInputs : SetMinutes(s, k, new_min)
    \/ \E month \in Months : Expire(month)

SpecSelf == InitSelf /\ [][NextSelf]_vars

\* C5: a join request of a session whose (name, attribute) the date already
\* has, a missing attribute read as "Other", writes nothing; and no two
\* shifts share date, name and attribute.
C5_OneShiftPerPerson ==
    /\ [][\A s \in Sessions, d \in Dates :
            /\ SelfAdd(s, d, MaxDocsSelf)
            /\ \E k \in ShiftsOn(d) :
                  /\ events[k].name = session[s].user_name
                  /\ AttrOf(events[k]) = session[s].user_attribute
            => events' = events]_vars
    /\ [](\A j, k \in DOMAIN events :
            /\ events[j].date = events[k].date
            /\ events[j].name = events[k].name
            /\ AttrOf(events[j]) = AttrOf(events[k])
            => j = k)

\* The join request of a session named like the document without an
\* attribute, with the attribute "Other", has been refused, while a session
\* with another attribute has joined the same date.
C5_Witness ==
    /\ notice = "already_in"
    /\ \E k \in DOMAIN events : "attribute" \notin DOMAIN events[k]
    /\ \E s \in Sessions :
          /\ session[s].user_attribute = "Other"
          /\ session[s].user_name = LegacyDoc.name
          /\ current_date(s) = LegacyDoc.month_id
    /\ \E k \in ShiftsOn(LegacyDoc.date) :
          "attribute" \in DOMAIN events[k] /\ events[k].attribute = "PTA"

\* ------------------------------------------------------------ the reports
\* The store holds the shifts of one month, written by earlier sessions: new
\* documents, documents with changed minutes and documents from before
\* attributes and minutes existed.  One session logs in, locks the month,
\* looks at the attendance table and exports the CSV.

\* Documents of v2_events the report specification starts with, at most.
MaxDocsReport == 3

ReportShapes ==
    LET people == {<<(<<"a">>), (<<1, 1>>)>>, <<(<<"a">>), (<<1, 2>>)>>,
                   <<(<<"b">>), (<<1, 1>>)>>}
    IN  {[date |-> p[2], month_id |-> MonthOf(p[2]), name |-> p[1]] : p \in people}
        \cup {[date |-> p[2], month_id |-> MonthOf(p[2]), name |-> p[1],
               attribute |-> "PTA", minutes |-> MINUTES_PER_SHIFT] : p \in people}
        \cup {[date |-> p[2], month_id |-> MonthOf(p[2]), name |-> p[1],
               attribute |-> "Other", minutes |-> 0] : p \in people}

\* The documents the application wrote carry a uid.
Stored(shape, k) ==
    IF "attribute" \in DOMAIN shape
    THEN [f \in DOMAIN shape \cup {"uid"} |-> IF f = "uid" THEN k ELSE shape[f]]
    ELSE shape

InitReport ==
    /\ \E n \in 0..MaxDocsReport :
          \E shapes \in [1..n -> ReportShapes] :
              events = [k \in 1..n |-> Stored(shapes[k], k)]
    /\ day_status = [d \in {<<1, 1>>, <<1, 2>>} |-> TRUE]
    /\ month_locks = <<>>
    /\ board = <<>>
    /\ cache = <<>>
    /\ now = 0
    /\ session = [s \in Sessions |->
                    [agreed_to_terms |-> FALSE, user_name |-> NoName,
                     user_attribute |-> "", admin_mode |-> FALSE,
                     current_date |-> 1, cleanup_done |-> FALSE]]
    /\ notice = ""
    /\ sweeps = [s \in Sessions |-> 0]
    /\ deleted_count = 0
    /\ inflight = [s \in Sessions |-> <<>>]

NextReport ==
    \/ \E s \in MainSessions :
        \/ Agree(s)
        \/ FirstRun(s)
        \/ Render(s)
        \/ SubmitName(s, <<"a">>, "Other")
        \/ Login(s, ADMIN_PASSWORD)
        \/ ToggleLock(s)
        \/ ExportCsv(s)
    \/ \E month \in Months : Expire(month)

SpecReport == InitReport /\ [][NextReport]_vars

\* The events of a month, of a (name, attribute) pair, of a day.
EventsOfMonth(month) == {k \in DOMAIN events : events[k].month_id = month}

EventsOfPair(month, key) ==
    {k \in EventsOfMonth(month) : <<events[k].name, AttrOf(events[k])>> = key}

\* C11: the pivot has one row per (name, attribute) pair of the month's
\* events and one column per day that has events; each cell is the sum of the
\* minutes (a missing minutes counted as 50) of the pair's events of the day,
\* and the row's total is the sum of its cells.
C11_PivotSums ==
    \A month \in Months :
        LET csv == generate_admin_csv(month)
            days == {events[k].date[2] : k \in EventsOfMonth(month)}
        IN  IF EventsOfMonth(month) = {} THEN csv = NoCsv
            ELSE /\ DOMAIN csv =
                       {<<events[k].name, AttrOf(events[k])>> : k \in EventsOfMonth(month)}
                 /\ \A key \in DOMAIN csv :
                       /\ DOMAIN csv[key].cells = days
                       /\ csv[key].total = SumOver(csv[key].cells, days)
                       /\ csv[key].total = SumMinutes(events, EventsOfPair(month, key))
                       /\ \A day \in days :
                             csv[key].cells[day] =
                                 SumMinutes(events, {k \in EventsOfPair(month, key) :
                                                        events[k].date[2] = day})

\* The admin has exported a month in which a pair has no event on a day that
\* is a column, a pair's total sums two events, and a document has no
\* minutes.
C11_Witness ==
    /\ notice = "csv_ready"
    /\ \E s \in MainSessions :
          LET month == current_date(s)
              csv == generate_admin_csv(month)
          IN  /\ session[s].admin_mode
              /\ \E key \in DOMAIN csv :
                    \E day \in DOMAIN csv[key].cells :
                        /\ csv[key].cells[day] = 0
                        /\ \A k \in EventsOfPair(month, key) : events[k].date[2] # day
              /\ \E key \in DOMAIN csv :
                    /\ Cardinality(EventsOfPair(month, key)) = 2
                    /\ csv[key].total = 2 * MINUTES_PER_SHIFT
                    /\ \E k \in EventsOfPair(month, key) : "minutes" \notin DOMAIN events[k]

\* C12: for a locked month the attendance table has exactly one row per
\* (name, attribute) pair of the month's events (a missing attribute read as
\* "Other"); the row's total is the sum of the pair's minutes (a missing
\* minutes counted as 50); the rows are in descending order of the total,
\* and rows of equal total in ascending order of the name.
C12_AttendanceRowsSorted ==
    \A month \in Months :
        StoreLocked(month) =>
            LET rows == show_activity_record(get_firestore_data(month))
                keys == {<<events[k].name, AttrOf(events[k])>> : k \in EventsOfMonth(month)}
            IN  /\ Len(rows) = Cardinality(keys)
                /\ {<<rows[i].name, rows[i].attribute>> : i \in 1..Len(rows)} = keys
                /\ \A i \in 1..Len(rows) :
                      rows[i].minutes =
                          SumMinutes(events, EventsOfPair(month, <<rows[i].name,
                                                                   rows[i].attribute>>))
                /\ \A i, j \in 1..Len(rows) :
                      i < j =>
                          \/ rows[i].minutes > rows[j].minutes
                          \/ /\ rows[i].minutes = rows[j].minutes
                             /\ ~NameLess(rows[j].name, rows[i].name)

\* A session in the main app is shown the table of a locked month with three
\* rows: the first has the greater total and the later name, the other two
\* have equal totals and are in the order of their names.
C12_Witness ==
    \E s \in MainSessions :
        LET month == current_date(s)
        IN  /\ InMainApp(s)
            /\ StoreLocked(month)
            /\ month \in DOMAIN cache
            /\ LET rows == show_activity_record(cache[month])
               IN  /\ Len(rows) = 3
                   /\ rows[1].minutes > rows[2].minutes
                   /\ NameLess(rows[2].name, rows[1].name)
                   /\ rows[2].minutes = rows[3].minutes
                   /\ NameLess(rows[2].name, rows[3].name)

\* C21: for a locked month the attendance table and the CSV pivot, taken
\* from the same events, have the same (name, attribute) rows, and the
\* table's minutes of a row are the pivot's total of that row; a month
\* without events has neither rows nor a pivot.  Both read a missing
\* attribute as "Other" and a missing minutes as 50.
C21_ReportsAgree ==
    \A month \in Months :
        StoreLocked(month) =>
            LET rows == show_activity_record(get_firestore_data(month))
                csv == generate_admin_csv(month)
            IN  /\ get_firestore_data(month).events = Snapshot(month).events
                /\ IF csv = NoCsv THEN rows = <<>>
                   ELSE /\ {<<rows[i].name, rows[i].attribute>> : i \in 1..Len(rows)}
                              = DOMAIN csv
                        /\ Len(rows) = Cardinality(DOMAIN csv)
                        /\ \A i \in 1..Len(rows) :
                              rows[i].minutes =
                                  csv[<<rows[i].name, rows[i].attribute>>].total

\* An admin in the main app has exported the locked month it is shown the
\* table of; the month has a document without attribute and minutes that
\* shares its row with a document of attribute "Other", and a second row.
C21_Witness ==
    /\ notice = "csv_ready"
    /\ \E s \in MainSessions :
          LET month == current_date(s)
          IN  /\ InMainApp(s)
              /\ session[s].admin_mode
              /\ StoreLocked(month)
              /\ month \in DOMAIN cache
              /\ Len(show_activity_record(cache[month])) = 2
              /\ \E j, k \in EventsOfMonth(month) :
                    /\ "attribute" \notin DOMAIN events[j]
                    /\ "attribute" \in DOMAIN events[k]
                    /\ events[k].attribute = "Other"
                    /\ events[j].name = events[k].name

\* --------------------------------------------------------------- the lock
\* One session with the calendar of two months, the board and the lock
\* button: it logs in and out, sets held flags, adds, deletes, changes
\* minutes, posts and locks and unlocks either month.

\* Documents of v2_events and of v2_bulletin_board the lock specification
\* lets the store hold.
MaxDocsLock == 1

MaxBoardLock == 1

NextLock ==
    \/ \E s \in MainSessions :
        \/ Agree(s)
        \/ FirstRun(s)
        \/ SubmitName(s, <<"a">>, "Other")
        \/ Login(s, ADMIN_PASSWORD)
        \/ Logout(s)
        \/ ToggleLock(s)
        \/ \E delta \in {-1, 1} : ChangeMonth(s, delta)
        \/ \E d \in Dates : ToggleHeld(s, d)
        \/ SetMinutes(s, 1, 0)
        \/ \E k \in DocIds : DeleteShift(s, k)
        \/ \E d \in Dates : AdminAdd(s, d, <<"b">>, "PTA", MaxDocsLock)
        \/ \E d \in Dates : SelfAdd(s, d, MaxDocsLock)
        \/ PostBoard(s, <<"a">>, "hi", MaxBoardLock)

SpecLock == Init /\ [][NextLock]_vars

\* The operations the page of a session offers for a fetched view: the dates
\* with add widgets, the shifts with a delete button, the shifts with a
\* minutes input, the dates with an enabled held checkbox.
OfferedIn(s, view) ==
    [add |-> {d \in Dates : InMainApp(s) /\ MonthOf(d) = current_date(s)
                              /\ AddShown(view, d)},
     delete |-> {k \in DOMAIN view.events : InMainApp(s) /\ DeleteShown(s, view, k)},
     minutes |-> {k \in DOMAIN view.events : InMainApp(s) /\ AdminRow(s, view)},
     held |-> {d \in Dates : InMainApp(s) /\ MonthOf(d) = current_date(s)
                               /\ session[s].admin_mode /\ ~view.is_month_locked}]

\* A fetched view with the lock flag read as false.
Unlocked(view) == [view EXCEPT !.is_month_locked = FALSE]

\* C13: a request that locks or unlocks a month changes that month's lock
\* flag and nothing else of the store: the events, the day statuses, the
\* board and the other months' lock documents are as before.  What the page
\* offers after an unlock is what the locked page would offer were the flag
\* false, and what the page offered before a lock is what the locked page
\* would offer were the flag false: lock followed by unlock restores the
\* permitted adds, deletes, minutes inputs and held checkboxes.
C13_LockTogglesOnlyTheFlag ==
    [][month_locks' # month_locks =>
          \E month \in Months :
              /\ StoreLocked(month)' = ~StoreLocked(month)
              /\ UNCHANGED <<events, day_status, board>>
              /\ \A other \in Months \ {month} :
                    /\ (other \in DOMAIN month_locks') = (other \in DOMAIN month_locks)
                    /\ other \in DOMAIN month_locks => month_locks'[other] = month_locks[other]
              /\ \A s \in Sessions :
                    current_date(s) = month =>
                        IF StoreLocked(month)
                        THEN OfferedIn(s, get_firestore_data(month))' =
                                 OfferedIn(s, Unlocked(get_firestore_data(month)))
                        ELSE OfferedIn(s, Unlocked(get_firestore_data(month)))' =
                                 OfferedIn(s, get_firestore_data(month))]_vars

\* A month has been locked and unlocked again (its lock document says
\* false) while the other month is locked; the unlocked month has a shift
\* and a held date, the board has a message, and the admin's page offers an
\* add, a delete, a minutes input and a held checkbox.
C13_Witness ==
    \E s \in MainSessions :
        LET month == current_date(s)
            offered == OfferedIn(s, get_firestore_data(month))
        IN  /\ month \in DOMAIN month_locks
            /\ ~month_locks[month]
            /\ \E other \in Months \ {month} : StoreLocked(other)
            /\ board # <<>>
            /\ offered.add # {}
            /\ offered.delete # {}
            /\ offered.minutes # {}
            /\ offered.held # {}

\* --------------------------------------------------------------- the race
\* Two sessions whose script runs are threads of the process: an add is two
\* steps, the read of the events and the write, and the steps of the two
\* sessions interleave.  The first session logs in, sets the date held and
\* adds shifts; the second joins.  A session starts no run while its add is
\* under way.

NextRace ==
    \E s \in Sessions :
        \/ /\ inflight[s] = <<>>
           /\ \/ Agree(s)
              \/ FirstRun(s)
              \/ SubmitName(s, <<"a">>, "Other")
              \/ SelfAdd(s, FullDate, MaxDocsFull)
              \/ BeginSelfAdd(s, FullDate, MaxDocsFull)
              \/ /\ s \in MainSessions
                 /\ \/ Login(s, ADMIN_PASSWORD)
                    \/ Logout(s)
                    \/ ToggleHeld(s, FullDate)
                    \/ AdminAdd(s, FullDate, <<"b">>, "PTA", MaxDocsFull)
                    \/ BeginAdminAdd(s, FullDate, <<"b">>, "PTA", MaxDocsFull)
        \/ CommitAdd(s)

SpecRace == Init /\ [][NextRace]_vars

\* C14: a run that starts an add has read fewer than MAX_SHIFTS_PER_DAY
\* events of the date, and its write is applied whatever the store holds by
\* then: the store gains exactly the run's document.  Two runs that both
\* read before either writes are both applied.
C14_CheckThenWriteNotAtomic ==
    [][\A s \in Sessions :
          /\ inflight[s] = <<>> /\ inflight'[s] # <<>> =>
                Cardinality(day_events(get_firestore_data(current_date(s)),
                                       inflight'[s][1].date)) < MAX_SHIFTS_PER_DAY
          /\ inflight[s] # <<>> /\ inflight'[s] = <<>> =>
                /\ Cardinality(DOMAIN events' \ DOMAIN events) = 1
                /\ \A k \in DOMAIN events : k \in DOMAIN events' /\ events'[k] = events[k]
                /\ \A k \in DOMAIN events' \ DOMAIN events :
                      /\ events'[k].date = inflight[s][1].date
                      /\ events'[k].name = inflight[s][1].name
                      /\ events'[k].attribute = inflight[s][1].attribute]_vars

\* The date holds more than MAX_SHIFTS_PER_DAY shifts: four were there when
\* an admin's add and a join both read, and both have written.
C14_Witness ==
    /\ Cardinality(ShiftsOn(FullDate)) > MAX_SHIFTS_PER_DAY
    /\ Pending = {}
    /\ \E k \in ShiftsOn(FullDate) : events[k].name = <<"a">>
    /\ \E k \in ShiftsOn(FullDate) : events[k].name = <<"b">>

\* C16 is checked in the self-service specification.  A ShiftEvent leaves the
\* store only in a delete request, of a session that is an admin or whose
\* name and attribute are the event's (a missing attribute read as "Other"),
\* and only while the event's month is unlocked; an admin's delete request
\* removes any event of an unlocked month; a general user's delete request
\* for an event of another identity removes nothing; a delete removes the
\* targeted event and leaves every other event as it was.
C16_DeleteByOwnerOrAdmin ==
    [][/\ \A k \in DOMAIN events \ DOMAIN events' :
             /\ DOMAIN events' = DOMAIN events \ {k}
             /\ \A j \in DOMAIN events' : events'[j] = events[j]
             /\ ~StoreLocked(events[k].month_id)
             /\ \E s \in Sessions :
                   /\ DeleteShift(s, k)
                   /\ \/ session[s].admin_mode
                      \/ /\ events[k].name = session[s].user_name
                         /\ AttrOf(events[k]) = session[s].user_attribute
       /\ \A s \in Sessions, k \in SelfDocIds :
             DeleteShift(s, k) =>
                 IF /\ ~StoreLocked(current_date(s))
                    /\ \/ session[s].admin_mode
                       \/ /\ events[k].name = session[s].user_name
                          /\ AttrOf(events[k]) = session[s].user_attribute
                 THEN events' = Restrict(events, DOMAIN events \ {k})
                 ELSE events' = events]_vars

\* A shift has been deleted while a later one stays (the smallest document
\* id is free), and a general user in the main app is shown a shift of
\* another identity, on which it has no delete button.
C16_Witness ==
    /\ 1 \notin DOMAIN events
    /\ \E k \in DOMAIN events, s \in Sessions :
          /\ InMainApp(s)
          /\ ~session[s].admin_mode
          /\ current_date(s) = events[k].month_id
          /\ ~StoreLocked(events[k].month_id)
          /\ ~is_own_shift(s, events[k])
          /\ ~DeleteShown(s, get_firestore_data(current_date(s)), k)

\* C17 is checked in the self-service specification.  The minutes of a
\* ShiftEvent change only in a minutes request of a session with admin_mode
\* true, for an event of an unlocked month; the update sets the minutes
\* field of that event and leaves its other fields and every other event as
\* they were; a new event has MINUTES_PER_SHIFT minutes; and the minutes of
\* every event (a missing minutes read as 50) are never negative.
C17_SetMinutesAdminOnly ==
    /\ [][/\ \A k \in DOMAIN events \cap DOMAIN events' :
                events'[k] # events[k] =>
                    /\ DOMAIN events' = DOMAIN events
                    /\ \A j \in DOMAIN events \ {k} : events'[j] = events[j]
                    /\ DOMAIN events'[k] = DOMAIN events[k] \cup {"minutes"}
                    /\ \A f \in DOMAIN events[k] \ {"minutes"} : events'[k][f] = events[k][f]
                    /\ ~StoreLocked(events[k].month_id)
                    /\ \E s \in Sessions :
                          /\ session[s].admin_mode
                          /\ SetMinutes(s, k, events'[k].minutes)
          /\ \A k \in DOMAIN events' \ DOMAIN events :
                events'[k].minutes = MINUTES_PER_SHIFT
          /\ \A s \in Sessions, k \in SelfDocIds, new_min \in SelfMinuteInputs :
                SetMinutes(s, k, new_min) /\ ~session[s].admin_mode => events' = events]_vars
    /\ [](\A k \in DOMAIN events : MinutesOf(events[k]) >= 0)

\* The admin has set to 0 the minutes of the document that had none, while
\* a shift a general user added has its 50 minutes.
C17_Witness ==
    /\ \E k \in DOMAIN events :
          /\ "attribute" \notin DOMAIN events[k]
          /\ "minutes" \in DOMAIN events[k]
          /\ events[k].minutes = 0
    /\ \E k \in DOMAIN events :
          /\ "attribute" \in DOMAIN events[k]
          /\ events[k].minutes = MINUTES_PER_SHIFT
    /\ \E s \in Sessions : InMainApp(s) /\ ~session[s].admin_mode
    /\ \E s \in Sessions : InMainApp(s) /\ session[s].admin_mode

\* --------------------------------------------------------------- the gate
\* Two sessions at the front door.  The first submits the name form, logs
\* in with a right or a wrong password, logs out, and uses what its page
\* shows: the lock button, the export button, the held checkbox, the add
\* form, the join button, the minutes input, the delete button and the board
\* form.  The second agrees, has its first run and re-renders.  The board
\* may hold a message that earlier sessions posted more than two weeks ago.

\* Documents of v2_events and of v2_bulletin_board the gate specification
\* lets the store hold.
MaxDocsGate == 2

MaxBoardGate == 1

\* What is typed into the name form: nothing, a space, a name.
GateNameInputs == {<<>>, <<" ">>, <<"a">>}

GateDocIds == 1..MaxDocsGate

\* The requests of a session that write a ShiftEvent, a DayStatus or a new
\* BoardMessage.
WriteRequest(s) ==
    \/ ToggleHeld(s, FullDate)
    \/ SetMinutes(s, 1, 0)
    \/ \E k \in GateDocIds : DeleteShift(s, k)
    \/ AdminAdd(s, FullDate, <<"b">>, "PTA", MaxDocsGate)
    \/ SelfAdd(s, FullDate, MaxDocsGate)
    \/ \E name \in BoardNameInputs, message \in MessageInputs :
          PostBoard(s, name, message, MaxBoardGate)

OldMessage == [month_id |-> 1, name |-> <<"a">>, message |-> "hi", timestamp |-> 0]

InitGate ==
    /\ events = <<>>
    /\ day_status = <<>>
    /\ month_locks = <<>>
    /\ board \in {<<>>, <<OldMessage>>}
    /\ cache = <<>>
    /\ now = OldMessage.timestamp + TWO_WEEKS + 1
    /\ session = [s \in Sessions |->
                    [agreed_to_terms |-> FALSE, user_name |-> NoName,
                     user_attribute |-> "", admin_mode |-> FALSE,
                     current_date |-> 1, cleanup_done |-> FALSE]]
    /\ notice = ""
    /\ sweeps = [s \in Sessions |-> 0]
    /\ deleted_count = 0
    /\ inflight = [s \in Sessions |-> <<>>]

NextGate ==
    \/ \E s \in Sessions :
        \/ Agree(s)
        \/ FirstRun(s)
        \/ Render(s)
    \/ \E s \in MainSessions :
        \/ \E name \in GateNameInputs : SubmitName(s, name, "Other")
        \/ \E password \in PasswordInputs : Login(s, password)
        \/ Logout(s)
        \/ ToggleLock(s)
        \/ ExportCsv(s)
        \/ WriteRequest(s)

SpecGate == InitGate /\ [][NextGate]_vars

\* C18: admin_mode of a session becomes true only in a login request with
\* the admin password, and false only in a logout request; a login with
\* another password leaves it false.  A lock document, a day status and the
\* minutes of a shift are written, and the CSV is exported, only in a
\* request of a session whose admin_mode is true; a new shift is written by
\* such a session, or carries the name and attribute of the session that
\* joined.
C18_AdminOnlyOperations ==
    [][/\ \A s \in Sessions :
             /\ ~session[s].admin_mode /\ session'[s].admin_mode => Login(s, ADMIN_PASSWORD)
             /\ session[s].admin_mode /\ ~session'[s].admin_mode => Logout(s)
             /\ \A password \in PasswordInputs \ {ADMIN_PASSWORD} :
                   Login(s, password) => ~session'[s].admin_mode
       /\ month_locks' # month_locks =>
             \E s \in Sessions : session[s].admin_mode /\ ToggleLock(s)
       /\ day_status' # day_status =>
             \E s \in Sessions : session[s].admin_mode /\ ToggleHeld(s, FullDate)
       /\ (\E k \in DOMAIN events \cap DOMAIN events' :
              MinutesOf(events'[k]) # MinutesOf(events[k])) =>
             \E s \in Sessions : session[s].admin_mode /\ SetMinutes(s, 1, 0)
       /\ \A k \in DOMAIN events' \ DOMAIN events :
             \/ \E s \in Sessions :
                   /\ session[s].admin_mode
                   /\ AdminAdd(s, FullDate, events'[k].name, events'[k].attribute, MaxDocsGate)
             \/ \E s \in Sessions :
                   /\ events'[k].name = session[s].user_name
                   /\ events'[k].attribute = session[s].user_attribute
                   /\ SelfAdd(s, FullDate, MaxDocsGate)
       /\ notice' \in {"csv_ready", "no_events"} /\ notice' # notice =>
             \E s \in Sessions : session[s].admin_mode /\ ExportCsv(s)]_vars

\* A session that has been refused with a wrong password, has logged in and
\* logged out again is no admin, and the store shows what it did as an
\* admin: a lock document, a held date, a shift under another name with
\* changed minutes, next to the shift it joined itself.
C18_Witness ==
    \E s \in MainSessions :
        /\ InMainApp(s)
        /\ ~session[s].admin_mode
        /\ DOMAIN month_locks # {}
        /\ StoreHeld(FullDate)
        /\ \E k \in DOMAIN events :
              events[k].name # session[s].user_name /\ events[k].minutes = 0
        /\ \E k \in DOMAIN events : is_own_shift(s, events[k])
        /\ notice = "wrong_password"

\* The warnings and errors of a refused request.
RejectionNotices ==
    {"already_in", "wrong_password", "board_incomplete", "name_required", "no_events"}

\* C19: a join for a date that has the session's shift, a login with a wrong
\* password, a board post with an empty name or message, a name form
\* submitted empty and an export of a month without events each leave the
\* four collections and the session state as they were and show their
\* warning; and in a state that shows such a warning the session can run its
\* script again: no request leaves it stuck.
C19_RejectionsChangeNothing ==
    /\ [][\A s \in Sessions :
            /\ /\ SelfAdd(s, FullDate, MaxDocsGate)
               /\ \E k \in ShiftsOn(FullDate) : is_own_shift(s, events[k])
               => /\ UNCHANGED <<events, day_status, month_locks, board, session>>
                  /\ /\ StoreHeld(FullDate)
                     /\ ~StoreLocked(MonthOf(FullDate))
                     /\ Cardinality(ShiftsOn(FullDate)) < MAX_SHIFTS_PER_DAY
                     => notice' = "already_in"
            /\ \A password \in PasswordInputs \ {ADMIN_PASSWORD} :
                  Login(s, password)
                  => /\ UNCHANGED <<events, day_status, month_locks, board, session>>
                     /\ notice' = "wrong_password"
            /\ \A name \in BoardNameInputs, message \in MessageInputs :
                  PostBoard(s, name, message, MaxBoardGate) /\ (name = NoName \/ message = "")
                  => /\ UNCHANGED <<events, day_status, month_locks, board, session>>
                     /\ notice' = "board_incomplete"
            /\ SubmitName(s, NoName, "Other")
               => /\ UNCHANGED <<events, day_status, month_locks, board, session>>
                  /\ notice' = "name_required"
            /\ ExportCsv(s) /\ EventsOfMonth(current_date(s)) = {}
               => /\ UNCHANGED <<events, day_status, month_locks, board, session>>
                  /\ notice' = "no_events"]_vars
    /\ [](notice \in RejectionNotices => \E s \in MainSessions : ENABLED Render(s))

\* A general user's join has been refused for the date that has its shift,
\* with room left on the date and in the store.
C19_Witness ==
    /\ notice = "already_in"
    /\ Cardinality(DOMAIN events) < MaxDocsGate
    /\ \E s \in MainSessions :
          /\ InMainApp(s)
          /\ ~session[s].admin_mode
          /\ \E k \in ShiftsOn(FullDate) : is_own_shift(s, events[k])
          /\ AddShown(get_firestore_data(current_date(s)), FullDate)

\* C20 as stated: whenever the events, the day statuses or the board
\* change, the request is one of a session that has agreed to the terms and
\* has a non-empty user name.
C20_NoWriteBeforeName ==
    [][events' # events \/ day_status' # day_status \/ board' # board =>
          \E s \in Sessions :
              /\ session[s].agreed_to_terms
              /\ session[s].user_name # NoName
              /\ (WriteRequest(s) \/ FirstRun(s))]_vars

\* C20 as amended: a ShiftEvent or DayStatus is written, and a BoardMessage
\* is posted, only in a request of a session that has agreed to the terms and
\* has a non-empty user name; a BoardMessage is deleted in the first run of a
\* session that has agreed, which has no name yet.  A name form submitted
\* with spaces only does not open the main app, and no event has an empty
\* name.  A session that has agreed and had its first run has the sidebar,
\* name or no name: the login while it is no admin, the lock button and the
\* export button while it is one.
C20_WritesGatedSweepNot ==
    /\ [][/\ events' # events \/ day_status' # day_status \/ Len(board') > Len(board) =>
                \E s \in Sessions :
                    /\ session[s].agreed_to_terms
                    /\ session[s].user_name # NoName
                    /\ WriteRequest(s)
          /\ Len(board') < Len(board) =>
                \E s \in Sessions :
                    /\ session[s].agreed_to_terms
                    /\ session[s].user_name = NoName
                    /\ FirstRun(s)
          /\ \A s \in Sessions, name \in GateNameInputs :
                /\ SubmitName(s, name, "Other")
                /\ \A i \in 1..Len(name) : name[i] = " "
                => session'[s].user_name = NoName /\ ~InMainApp(s)']_vars
    /\ [](\A k \in DOMAIN events : events[k].name # NoName)
    /\ [](\A s \in MainSessions :
            Ready(s) =>
                IF session[s].admin_mode
                THEN ENABLED ToggleLock(s) /\ ENABLED ExportCsv(s)
                ELSE ENABLED Login(s, ADMIN_PASSWORD))

\* The old message has been swept in the first run of the session, which
\* has since given its name and joined a date an admin set held.
C20_Witness ==
    /\ board = <<>>
    /\ deleted_count = 1
    /\ \E s \in MainSessions, k \in DOMAIN events :
          /\ sweeps[s] = 1
          /\ InMainApp(s)
          /\ is_own_shift(s, events[k])
          /\ StoreHeld(events[k].date)
====
